---- MODULE Spec2Model ----
(***************************************************************************)
(* Model of supervisor/docker/network.py: the DockerNetwork manager of the *)
(* internal Supervisor network (find-or-create with dual-stack migration,  *)
(* attach_container, detach_default_bridge, stale_cleanup) driven against  *)
(* a Docker network provider.                                              *)
(***************************************************************************)
EXTENDS Integers, Sequences, FiniteSets, TLC

VARIABLES
    desired,        \* dual-stack flag the caller asks for (test: new_enable_ipv6)
    netExists,      \* provider: a network named DOCKER_NETWORK exists
    netId,          \* provider: identity of the latest canonical network
    netAttrs,       \* provider: its attributes (EnableIPv6 may be missing)
    netMembers,     \* provider: its endpoints, records [Name, Live, IPv4]
    bridgeExists,   \* provider: the default network (DOCKER_NETWORK_DRIVER) exists
    bridgeMembers,  \* provider: names of containers connected to it
    pcInit,         \* position of DockerNetwork.__init__ / _get_network
    network,        \* self._network: [Id, attrs] (Id = 0 while unset)
    initLog,        \* provider calls issued by _get_network, in order
    initErr,        \* exception _get_network propagated ("none" if none)
    pc,             \* per caller: position inside the running method
    op,             \* per caller: the method running or last run
    args,           \* per caller: arguments of that method
    log,            \* per caller: provider calls issued by that method, in order
    res,            \* per caller: outcome of that method
    faults,         \* provider/transport failures injected so far
    calls,          \* methods started and property reads made so far
    seen,           \* the addresses read through the properties since the last method began
    before          \* per caller: the provider's entries for its container and its address when its method began

vars == <<desired, netExists, netId, netAttrs, netMembers, bridgeExists,
          bridgeMembers, pcInit, network, initLog, initErr, pc, op, args,
          log, res, faults, calls, seen, before>>

provVars == <<netExists, netId, netAttrs, netMembers, bridgeExists, bridgeMembers>>
initVars == <<pcInit, initLog, initErr>>

----------------------------------------------------------------------------
(* Bounds of the model *)

MaxCalls == 2
MaxFaults == 1

----------------------------------------------------------------------------
(* Constants imported from ..const *)

DOCKER_NETWORK == "hassio"
DOCKER_NETWORK_DRIVER == "bridge"

\* An IPv4Address is its 32-bit integer, kept as two 16-bit halves.
DOCKER_IPV4_NETWORK_MASK == [hi |-> 172 * 256 + 30, lo |-> 32 * 256, size |-> 512]
DOCKER_IPV4_NETWORK_RANGE == [hi |-> 172 * 256 + 30, lo |-> 33 * 256, size |-> 256]
DOCKER_IPV6_NETWORK_MASK == "fd0c:ac1e:2100::/48"

None == <<>>

\* NetIndex counting from one instead of zero
NetIndex_FromOne(n, k) ==
    [hi |-> n.hi + ((n.lo + k - 1) \div 65536), lo |-> (n.lo + k - 1) % 65536]

\* IPv4Network.__getitem__: network address + k
NetIndex(n, k) == [hi |-> n.hi + ((n.lo + k) \div 65536), lo |-> (n.lo + k) % 65536]

\* str(IPv4Address): the dotted quad, as its four octets
Str(ip) == <<ip.hi \div 256, ip.hi % 256, ip.lo \div 256, ip.lo % 256>>

\* str(IPv4Network): dotted quad of the base and the prefix length
StrNet(n) == <<Str(NetIndex(n, 0)), IF n.size = 512 THEN 23 ELSE 24>>

gateway == NetIndex(DOCKER_IPV4_NETWORK_MASK, 1)
supervisor == NetIndex(DOCKER_IPV4_NETWORK_MASK, 2)
dns == NetIndex(DOCKER_IPV4_NETWORK_MASK, 3)
audio == NetIndex(DOCKER_IPV4_NETWORK_MASK, 4)
cli == NetIndex(DOCKER_IPV4_NETWORK_MASK, 5)
observer == NetIndex(DOCKER_IPV4_NETWORK_MASK, 6)

DOCKER_NETWORK_PARAMS ==
    [name |-> DOCKER_NETWORK,
     driver |-> DOCKER_NETWORK_DRIVER,
     ipam |-> <<[subnet |-> DOCKER_IPV6_NETWORK_MASK],
                [subnet |-> StrNet(DOCKER_IPV4_NETWORK_MASK),
                 gateway |-> Str(NetIndex(DOCKER_IPV4_NETWORK_MASK, 1)),
                 iprange |-> StrNet(DOCKER_IPV4_NETWORK_RANGE)]>>,
     enable_ipv6 |-> TRUE,
     options |-> [bridge_name |-> DOCKER_NETWORK]]

----------------------------------------------------------------------------
(* Exceptions *)

\* docker.errors: NotFound < APIError < DockerException; requests.RequestException
IsInstance(err, cls) ==
    \/ err = cls
    \/ err = "NotFound" /\ cls \in {"APIError", "DockerException"}
    \/ err = "APIError" /\ cls = "DockerException"

\* failures the provider or the transport can produce on any call
FaultKinds == {"APIError", "DockerException", "RequestException"}

Threads == {1}
AllThreads == {1, 2}
Names == {"core", "observer"}

NoRes == [exc |-> "none", msg |-> "", cause |-> "none"]
Raised(e) == [exc |-> e, msg |-> "", cause |-> "none"]
DockerError(m, e) == [exc |-> "DockerError", msg |-> m, cause |-> e]

\* one provider call as the mocks of the tests would record it
Call(o, target, force, aliases, ipv4, r) ==
    [op |-> o, target |-> target, force |-> force, aliases |-> aliases,
     ipv4 |-> ipv4, res |-> r]

----------------------------------------------------------------------------
(* dict.get with a default *)
AttrsGet(attrs, key, default) ==
    IF key \in DOMAIN attrs THEN attrs[key] ELSE default

\* the attrs a Network object caches after get()/reload()
Snapshot == netAttrs @@ [Containers |-> netMembers]

\* outcomes of a provider call: the genuine one, or an injected failure
Outcomes(genuine) ==
    {genuine} \cup (IF faults < MaxFaults THEN FaultKinds ELSE {})

Inject(r, genuine) ==
    faults' = IF r = genuine THEN faults ELSE faults + 1

----------------------------------------------------------------------------
(* DockerNetwork.__init__ -> _get_network *)

\* line 107: the existing network is kept when its EnableIPv6 attribute is set
ReuseNetwork(attrs) == AttrsGet(attrs, "EnableIPv6", FALSE)

\* AfterGet with the check of EnableIPv6 left out: any network found is kept
AfterGet_AlwaysReuse(r, attrs) ==
    IF r = "ok" THEN "ready"
    ELSE IF IsInstance(r, "NotFound") THEN "create"
    ELSE "failed"

\* AfterGet with every failure of get() taken for a missing network
AfterGet_AnyErrorCreates(r, attrs) ==
    IF r = "ok" THEN (IF ReuseNetwork(attrs) THEN "ready" ELSE "remove")
    ELSE "create"

\* AfterGet with NotFound left uncaught
AfterGet_NotFoundFatal(r, attrs) ==
    IF r = "ok" THEN (IF ReuseNetwork(attrs) THEN "ready" ELSE "remove")
    ELSE "failed"

\* lines 106-112: where _get_network goes after self._get(DOCKER_NETWORK)
AfterGet(r, attrs) ==
    IF r = "ok" THEN (IF ReuseNetwork(attrs) THEN "ready" ELSE "remove")
    ELSE IF IsInstance(r, "NotFound") THEN "create"
    ELSE "failed"

\* AfterRemove with every outcome of remove() followed by the create
AfterRemove_AlwaysCreate(r) == "create"

\* lines 109-112: where _get_network goes after network.remove()
AfterRemove(r) ==
    IF r = "ok" \/ IsInstance(r, "NotFound") THEN "create" ELSE "failed"

\* line 114: the result of self._create() is returned, its failure propagates
AfterCreate(r) == IF r = "ok" THEN "ready" ELSE "failed"

\* the Network object a provider call returned: its identity and flag
Returned(id, attrs) == [Id |-> id, attrs |-> attrs]

InitCall(o, a, r, ret) == [op |-> o, arg |-> a, res |-> r, ret |-> ret]

\* line 107: self._get(DOCKER_NETWORK)
GetNetwork ==
    /\ pcInit = "get"
    /\ LET genuine == IF netExists THEN "ok" ELSE "NotFound" IN
       \E r \in Outcomes(genuine) :
        /\ Inject(r, genuine)
        /\ initLog' = Append(initLog, InitCall("get", DOCKER_NETWORK, r,
                                               IF r = "ok" THEN Returned(netId, netAttrs) ELSE None))
        /\ network' = IF r = "ok" THEN [Id |-> netId, attrs |-> Snapshot] ELSE network
        /\ pcInit' = AfterGet(r, Snapshot)
        /\ initErr' = IF AfterGet(r, Snapshot) = "failed" THEN r ELSE initErr
    /\ UNCHANGED <<seen, before, desired, provVars, pc, op, args, log, res, calls>>

\* line 109: network.remove()
RemoveNetwork ==
    /\ pcInit = "remove"
    /\ LET genuine == IF netExists /\ netId = network.Id THEN "ok" ELSE "NotFound" IN
       \E r \in Outcomes(genuine) :
        /\ Inject(r, genuine)
        /\ initLog' = Append(initLog, InitCall("remove", network.Id, r, None))
        /\ netExists' = IF r = "ok" THEN FALSE ELSE netExists
        /\ netMembers' = IF r = "ok" THEN {} ELSE netMembers
        /\ pcInit' = AfterRemove(r)
        /\ initErr' = IF AfterRemove(r) = "failed" THEN r ELSE initErr
    /\ UNCHANGED <<seen, before, desired, netId, netAttrs, bridgeExists, bridgeMembers,
                   network, pc, op, args, log, res, calls>>

\* another client of the provider removes the network between the get() and
\* the remove() of _get_network: what the except clause of lines 110-111 is for
NetworkRemoved ==
    /\ pcInit = "remove"
    /\ netExists
    /\ netExists' = FALSE
    /\ netMembers' = {}
    /\ UNCHANGED <<seen, before, desired, netId, netAttrs, bridgeExists, bridgeMembers,
                   initVars, network, pc, op, args, log, res, faults, calls>>

\* the network the provider makes from the parameters of create()
Created(params) == [EnableIPv6 |-> params.enable_ipv6, Containers |-> {}]

\* line 114: self._create(**DOCKER_NETWORK_PARAMS)
CreateNetwork ==
    /\ pcInit = "create"
    /\ LET genuine == IF netExists THEN "APIError" ELSE "ok"
           params == DOCKER_NETWORK_PARAMS IN
       \E r \in Outcomes(genuine) :
        /\ Inject(r, genuine)
        /\ initLog' = Append(initLog, InitCall("create", params, r,
                                               IF r = "ok"
                                               THEN Returned(netId + 1, [EnableIPv6 |-> params.enable_ipv6])
                                               ELSE None))
        /\ IF r = "ok"
           THEN /\ netExists' = TRUE
                /\ netId' = netId + 1
                /\ netAttrs' = [EnableIPv6 |-> params.enable_ipv6]
                /\ netMembers' = {}
                /\ network' = [Id |-> netId + 1, attrs |-> Created(params)]
           ELSE UNCHANGED <<netExists, netId, netAttrs, netMembers, network>>
        /\ pcInit' = AfterCreate(r)
        /\ initErr' = IF AfterCreate(r) = "failed" THEN r ELSE initErr
    /\ UNCHANGED <<seen, before, desired, bridgeExists, bridgeMembers, pc, op, args, log, res, calls>>

----------------------------------------------------------------------------
(* Callers of the manager: methods run step by step, one provider call each *)

HandleValid == netExists /\ netId = network.Id

Begin(t, o, a, first) ==
    /\ pcInit = "ready"
    /\ pc[t] = "idle"
    /\ calls < MaxCalls
    /\ calls' = calls + 1
    /\ op' = [op EXCEPT ![t] = o]
    /\ args' = [args EXCEPT ![t] = a]
    /\ log' = [log EXCEPT ![t] = <<>>]
    /\ res' = [res EXCEPT ![t] = NoRes]
    /\ pc' = [pc EXCEPT ![t] = first]
    /\ before' = [before EXCEPT ![t] =
                      {m \in netMembers :
                          \/ m.Name = a.container
                          \/ a.ipv4_address # None /\ m.IPv4 = a.ipv4_address}]
    /\ seen' = None
    /\ UNCHANGED <<desired, provVars, initVars, network, faults>>

Record(t, c) == log' = [log EXCEPT ![t] = Append(@, c)]

\* the method returns (r = NoRes) or raises r
Finish(t, r) ==
    /\ pc' = [pc EXCEPT ![t] = "idle"]
    /\ res' = [res EXCEPT ![t] = r]

Goto(t, p) ==
    /\ pc' = [pc EXCEPT ![t] = p]
    /\ UNCHANGED res

AliasChoices == {None, <<"supervisor">>}
IPv4Choices == {None, supervisor}

\* lines 116-126: attach_container(container, alias, ipv4)
AttachBegin(t) ==
    \E c \in Names, al \in AliasChoices, ip \in IPv4Choices :
        Begin(t, "attach_container",
              [container |-> c, alias |-> al,
               ipv4_address |-> IF ip # None THEN Str(ip) ELSE None],
              "reload")

\* Suppressed without the suppress() around reload()
Suppressed_Nothing(e) == FALSE

\* Suppressed with requests.RequestException left out of suppress()
Suppressed_DockerOnly(e) == IsInstance(e, "DockerException")

\* line 129: the exceptions suppress() swallows around reload()
Suppressed(e) ==
    IsInstance(e, "DockerException") \/ IsInstance(e, "RequestException")

\* lines 128-130: self.network.reload()
Reload(t) ==
    /\ pc[t] = "reload"
    /\ LET genuine == IF HandleValid THEN "ok" ELSE "NotFound" IN
       \E r \in Outcomes(genuine) :
        /\ Inject(r, genuine)
        /\ Record(t, Call("reload", network.Id, FALSE, None, None, r))
        /\ network' = IF r = "ok" THEN [network EXCEPT !.attrs = Snapshot] ELSE network
        /\ IF r = "ok" \/ Suppressed(r)
           THEN Goto(t, "check")
           ELSE Finish(t, Raised(r))
    /\ UNCHANGED <<seen, before, desired, provVars, initVars, op, args, calls>>

\* StaleCheck taking any member of the snapshot for a stale entry
StaleCheck_AnyMember(name, attrs) == AttrsGet(attrs, "Containers", {}) # {}

\* StaleCheck finding every container stale
StaleCheck_Always(name, attrs) == TRUE

\* StaleCheck with the check for a stale entry left out
StaleCheck_Never(name, attrs) == FALSE

\* lines 133-135: the container's name is among the names of the cached members
StaleCheck(name, attrs) ==
    /\ name # ""
    /\ name \in {val.Name : val \in AttrsGet(attrs, "Containers", {})}

\* lines 132-136: check stale network
CheckStale(t) ==
    /\ pc[t] = "check"
    /\ IF StaleCheck(args[t].container, network.attrs)
       THEN Goto(t, "cleanup")
       ELSE Goto(t, "connect")
    /\ UNCHANGED <<seen, before, desired, provVars, initVars, network, op, args, log, faults, calls>>

\* lines 165-169: stale_cleanup(container_name), called on its own
StaleCleanupBegin(t) ==
    \E c \in Names :
        Begin(t, "stale_cleanup",
              [container |-> c, alias |-> None, ipv4_address |-> None], "cleanup")

\* CleanupOutcome without the except clause for NotFound
CleanupOutcome_NotFoundRaises(r) ==
    IF r = "ok" THEN NoRes
    ELSE IF IsInstance(r, "DockerException") \/ IsInstance(r, "RequestException")
    THEN DockerError("", r)
    ELSE Raised(r)

\* CleanupOutcome with every failure of the disconnect passed over
CleanupOutcome_Swallow(r) == NoRes

\* lines 170-175: what stale_cleanup does with the outcome of disconnect
CleanupOutcome(r) ==
    IF r = "ok" \/ IsInstance(r, "NotFound") THEN NoRes
    ELSE IF IsInstance(r, "DockerException") \/ IsInstance(r, "RequestException")
    THEN DockerError("", r)
    ELSE Raised(r)

\* CleanupForce with the force argument dropped
CleanupForce_Off == FALSE

\* line 171: the force flag of the disconnect
CleanupForce == TRUE

\* lines 170-175 (and 136): self.network.disconnect(container_name, force=True)
Cleanup(t) ==
    /\ pc[t] = "cleanup"
    /\ LET n == args[t].container
           genuine == IF HandleValid /\ \E m \in netMembers : m.Name = n
                      THEN "ok" ELSE "NotFound" IN
       \E r \in Outcomes(genuine) :
        /\ Inject(r, genuine)
        /\ Record(t, Call("disconnect", n, CleanupForce, None, None, r))
        /\ netMembers' = IF r = "ok" THEN {m \in netMembers : m.Name # n} ELSE netMembers
        /\ IF CleanupOutcome(r) = NoRes /\ op[t] = "attach_container"
           THEN Goto(t, "connect")
           ELSE Finish(t, CleanupOutcome(r))
    /\ UNCHANGED <<seen, before, desired, netExists, netId, netAttrs, bridgeExists, bridgeMembers,
                   initVars, network, op, args, calls>>

\* lines 139-144: what attach_container does with the outcome of connect
AttachOutcome(r) ==
    IF r = "ok" THEN NoRes
    ELSE IF IsInstance(r, "APIError") THEN DockerError("Can't link container to hassio-net", r)
    ELSE Raised(r)

\* the provider's answer to connect: endpoint names and addresses are unique
ConnectGenuine(n, ip) ==
    IF ~HandleValid THEN "NotFound"
    ELSE IF \E m \in netMembers : m.Name = n THEN "APIError"
    ELSE IF ip # None /\ \E m \in netMembers : m.IPv4 = ip THEN "APIError"
    ELSE "ok"

\* lines 138-144: self.network.connect(container, aliases=alias, ipv4_address=...)
Connect(t) ==
    /\ pc[t] = "connect"
    /\ LET a == args[t]
           genuine == ConnectGenuine(a.container, a.ipv4_address) IN
       \E r \in Outcomes(genuine) :
        /\ Inject(r, genuine)
        /\ Record(t, Call("connect", a.container, FALSE, a.alias, a.ipv4_address, r))
        /\ netMembers' = IF r = "ok"
                         THEN netMembers \cup {[Name |-> a.container, Live |-> TRUE,
                                                IPv4 |-> a.ipv4_address]}
                         ELSE netMembers
        /\ Finish(t, AttachOutcome(r))
    /\ UNCHANGED <<seen, before, desired, netExists, netId, netAttrs, bridgeExists, bridgeMembers,
                   initVars, network, op, args, calls>>

\* lines 146-152: detach_default_bridge(container)
DetachBegin(t) ==
    \E c \in Names :
        Begin(t, "detach_default_bridge",
              [container |-> c, alias |-> None, ipv4_address |-> None], "get_default")

\* DetachOutcome without the except clause for NotFound
DetachOutcome_NotFoundRaises(r) ==
    IF r = "ok" THEN NoRes
    ELSE IF IsInstance(r, "APIError") THEN DockerError("Can't disconnect container from default", r)
    ELSE Raised(r)

\* lines 157-163: what detach_default_bridge does with a failure in its try block
DetachOutcome(r) ==
    IF r = "ok" \/ IsInstance(r, "NotFound") THEN NoRes
    ELSE IF IsInstance(r, "APIError") THEN DockerError("Can't disconnect container from default", r)
    ELSE Raised(r)

\* line 154: self.docker.networks.get(DOCKER_NETWORK_DRIVER)
DetachGet(t) ==
    /\ pc[t] = "get_default"
    /\ LET genuine == IF bridgeExists THEN "ok" ELSE "NotFound" IN
       \E r \in Outcomes(genuine) :
        /\ Inject(r, genuine)
        /\ Record(t, Call("get", DOCKER_NETWORK_DRIVER, FALSE, None, None, r))
        /\ IF r = "ok"
           THEN Goto(t, "disconnect_default")
           ELSE Finish(t, DetachOutcome(r))
    /\ UNCHANGED <<seen, before, desired, provVars, initVars, network, op, args, calls>>

\* line 155: default_network.disconnect(container)
DetachDisconnect(t) ==
    /\ pc[t] = "disconnect_default"
    /\ LET n == args[t].container
           genuine == IF ~bridgeExists THEN "NotFound"
                      ELSE IF n \in bridgeMembers THEN "ok" ELSE "APIError" IN
       \E r \in Outcomes(genuine) :
        /\ Inject(r, genuine)
        /\ Record(t, Call("disconnect", n, FALSE, None, None, r))
        /\ bridgeMembers' = IF r = "ok" THEN bridgeMembers \ {n} ELSE bridgeMembers
        /\ Finish(t, DetachOutcome(r))
    /\ UNCHANGED <<seen, before, desired, netExists, netId, netAttrs, netMembers, bridgeExists,
                   initVars, network, op, args, calls>>

\* lines 61-64: DockerNetwork.containers, the keys of the cached members
containers == {val.Name : val \in AttrsGet(network.attrs, "Containers", {})}

\* lines 51-54: DockerNetwork.name
name == DOCKER_NETWORK

\* lines 66-94: what the address properties return
Addresses ==
    [gateway |-> gateway, supervisor |-> supervisor, dns |-> dns,
     audio |-> audio, cli |-> cli, observer |-> observer]

\* lines 51-94: a caller reads name and the six address properties
ReadAddresses ==
    /\ pcInit = "ready"
    /\ \A t \in AllThreads : pc[t] = "idle"
    /\ seen = None
    /\ calls < MaxCalls
    /\ calls' = calls + 1
    /\ seen' = Addresses
    /\ UNCHANGED <<before, desired, provVars, initVars, network, pc, op, args,
                   log, res, faults>>

\* a connected container is removed behind the network's back (moby issue 23302):
\* its endpoint stays recorded under the same name
ContainerRemoved ==
    /\ \E m \in netMembers :
        /\ m.Live
        /\ netMembers' = (netMembers \ {m}) \cup {[m EXCEPT !.Live = FALSE]}
    /\ UNCHANGED <<seen, before, desired, netExists, netId, netAttrs, bridgeExists, bridgeMembers,
                   initVars, network, pc, op, args, log, res, faults, calls>>

----------------------------------------------------------------------------

\* membership a network can have when the Supervisor starts
InitMembers ==
    {{},
     {[Name |-> "core", Live |-> FALSE, IPv4 |-> Str(supervisor)]},
     {[Name |-> "core", Live |-> TRUE, IPv4 |-> Str(supervisor)],
      [Name |-> "observer", Live |-> TRUE, IPv4 |-> Str(observer)]}}

Init ==
    /\ desired \in BOOLEAN
    /\ netExists \in BOOLEAN
    /\ netId = IF netExists THEN 1 ELSE 0
    /\ netAttrs \in IF netExists
                    THEN {[EnableIPv6 |-> TRUE], [EnableIPv6 |-> FALSE], <<>>}
                    ELSE {<<>>}
    /\ netMembers \in IF netExists THEN InitMembers ELSE {{}}
    /\ bridgeExists \in BOOLEAN
    /\ bridgeMembers \in IF bridgeExists THEN {{}, Names} ELSE {{}}
    /\ pcInit = "get"
    /\ network = [Id |-> 0, attrs |-> <<>>]
    /\ initLog = <<>>
    /\ initErr = "none"
    /\ pc = [t \in AllThreads |-> "idle"]
    /\ op = [t \in AllThreads |-> "none"]
    /\ args = [t \in AllThreads |-> [container |-> "", alias |-> None, ipv4_address |-> None]]
    /\ log = [t \in AllThreads |-> <<>>]
    /\ res = [t \in AllThreads |-> NoRes]
    /\ faults = 0
    /\ calls = 0
    /\ seen = None
    /\ before = [t \in AllThreads |-> {}]

Next ==
    \/ GetNetwork
    \/ RemoveNetwork
    \/ CreateNetwork
    \/ NetworkRemoved
    \/ ContainerRemoved
    \/ ReadAddresses
    \/ \E t \in Threads :
        \/ AttachBegin(t)
        \/ Reload(t)
        \/ CheckStale(t)
        \/ StaleCleanupBegin(t)
        \/ Cleanup(t)
        \/ Connect(t)
        \/ DetachBegin(t)
        \/ DetachGet(t)
        \/ DetachDisconnect(t)

Spec == Init /\ [][Next]_vars

\* attach_container called from two tasks at once: DockerNetwork holds no lock,
\* so the provider calls of two running calls interleave freely. Each task
\* makes one call, the second task while the call of the first is running; the
\* default bridge plays no part in attach_container and is left out.
InitConcurrent == Init /\ ~bridgeExists

Overlapping(t) == t \in Threads \/ \E u \in Threads : pc[u] # "idle"

NextConcurrent ==
    \/ GetNetwork
    \/ RemoveNetwork
    \/ CreateNetwork
    \/ NetworkRemoved
    \/ ContainerRemoved
    \/ \E t \in AllThreads :
        \/ Overlapping(t) /\ op[t] = "none" /\ AttachBegin(t)
        \/ Reload(t)
        \/ CheckStale(t)
        \/ Cleanup(t)
        \/ Connect(t)

SpecConcurrent == InitConcurrent /\ [][NextConcurrent]_vars

----------------------------------------------------------------------------
(* Properties of _get_network *)

CallsOf(L, o) == {i \in DOMAIN L : L[i].op = o}
Count(L, o) == Cardinality(CallsOf(L, o))

Resolved == pcInit = "ready"
InitOver == pcInit \in {"ready", "failed"}

\* get() found a network; ExistingFlag is its dual-stack flag
Existing == initLog # <<>> /\ initLog[1].res = "ok"
ExistingFlag == AttrsGet(initLog[1].ret.attrs, "EnableIPv6", FALSE)
Absent == initLog # <<>> /\ initLog[1].res = "NotFound"

HandleFlag == AttrsGet(network.attrs, "EnableIPv6", FALSE)

\* C1: an existing network whose dual-stack flag differs from the desired flag,
\* in either direction, is removed once and then created once with the
\* canonical parameters carrying the desired flag, and the handle of the
\* manager has the desired flag.
C1_RecreateOnMismatch ==
    (Resolved /\ Existing /\ ExistingFlag # desired) =>
        /\ Count(initLog, "remove") = 1
        /\ Count(initLog, "create") = 1
        /\ \A i \in CallsOf(initLog, "remove"), j \in CallsOf(initLog, "create") : i < j
        /\ \A j \in CallsOf(initLog, "create") :
              initLog[j].arg = [DOCKER_NETWORK_PARAMS EXCEPT !.enable_ipv6 = desired]
        /\ HandleFlag = desired

\* C2: an existing network whose dual-stack flag equals the desired flag (true
\* or false) is reused: get is the only provider call, and the handle of the
\* manager is the network get returned.
C2_ReuseOnMatch ==
    (Resolved /\ Existing /\ ExistingFlag = desired) =>
        /\ Len(initLog) = 1
        /\ initLog[1].op = "get"
        /\ network.Id = initLog[1].ret.Id

\* C3: when get reports NotFound, _get_network issues no remove and at most one
\* create; once it is over it has issued exactly one create, with
\* DOCKER_NETWORK_PARAMS, and on success the handle is the created network.
C3_CreateWhenAbsent ==
    Absent =>
        /\ Count(initLog, "remove") = 0
        /\ Count(initLog, "create") <= 1
        /\ InitOver =>
              /\ Len(initLog) = 2
              /\ initLog[2].op = "create"
              /\ initLog[2].arg = DOCKER_NETWORK_PARAMS
        /\ Resolved =>
              /\ initLog[2].res = "ok"
              /\ network.Id = initLog[2].ret.Id
              /\ HandleValid
              /\ HandleFlag = DOCKER_NETWORK_PARAMS.enable_ipv6

C3_Witness ==
    /\ Absent
    /\ Resolved
    /\ Len(initLog) = 2
    /\ network.Id = netId

\* C4: once _get_network has returned, the provider holds the canonical
\* network, its dual-stack flag equals the desired flag, and the handle of the
\* manager refers to it, whatever attach, cleanup and detach calls follow.
C4_OneNetworkWithDesiredFlag ==
    Resolved =>
        /\ netExists
        /\ network.Id = netId
        /\ AttrsGet(netAttrs, "EnableIPv6", FALSE) = desired

----------------------------------------------------------------------------
(* Properties of attach_container, stale_cleanup and detach_default_bridge *)

Returned_(t) == pc[t] = "idle" /\ op[t] # "none"
Last(L) == L[Len(L)]
IsReload(c) == c.op = "reload"
IsCleanup(c, n) == c.op = "disconnect" /\ c.target = n /\ c.force = TRUE
IsConnect(c, a) ==
    /\ c.op = "connect"
    /\ c.target = a.container
    /\ c.aliases = a.alias
    /\ c.ipv4 = a.ipv4_address

\* C5: in attach_container for a container whose name is in the cached
\* membership, the provider calls are reload, then the forced disconnect of
\* that name, then connect, in that order; connect is issued only after the
\* disconnect returned (with success or NotFound); after NotFound the connect
\* is still issued and the call returns what connect returns, success included.
C5_CleanupBeforeConnect ==
    \A t \in Threads :
        (op[t] = "attach_container" /\ pc[t] \notin {"reload", "check"}
            /\ StaleCheck(args[t].container, network.attrs)) =>
        LET L == log[t]
            n == args[t].container IN
        /\ Len(L) >= 1 /\ IsReload(L[1])
        /\ pc[t] = "cleanup" => Len(L) = 1
        /\ pc[t] # "cleanup" =>
              /\ Len(L) >= 2
              /\ IsCleanup(L[2], n)
        /\ pc[t] = "connect" => Len(L) = 2 /\ L[2].res \in {"ok", "NotFound"}
        /\ \A i \in CallsOf(L, "connect") :
              /\ i = 3
              /\ L[2].res \in {"ok", "NotFound"}
        /\ (Returned_(t) /\ L[2].res = "NotFound") =>
              /\ Len(L) = 3
              /\ IsConnect(L[3], args[t])
              /\ L[3].res = "ok" => res[t] = NoRes

C5_Witness ==
    \E t \in Threads :
        /\ op[t] = "attach_container"
        /\ Returned_(t)
        /\ StaleCheck(args[t].container, network.attrs)
        /\ Len(log[t]) = 3
        /\ log[t][2].res = "NotFound"
        /\ log[t][3].op = "connect"
        /\ res[t] = NoRes

\* C6: whenever connect fails with a provider error (API-level or
\* transport-level), attach_container raises a DockerError that carries that
\* error, and connect was issued exactly once.
C6_ConnectFailureWrapped ==
    \A t \in Threads :
        (op[t] = "attach_container" /\ Returned_(t)) =>
            \A i \in CallsOf(log[t], "connect") :
                log[t][i].res \in {"APIError", "NotFound", "RequestException"} =>
                    /\ res[t].exc = "DockerError"
                    /\ res[t].cause = log[t][i].res
                    /\ Count(log[t], "connect") = 1

\* C7: when the forced disconnect of stale_cleanup fails with an error other
\* than NotFound, stale_cleanup raises the generic DockerError caused by it;
\* inside attach_container that error is the outcome of the call and no
\* connect is issued.
C7_CleanupFailureSurfaces ==
    \A t \in Threads :
        \A i \in CallsOf(log[t], "disconnect") :
            (log[t][i].force /\ log[t][i].res \notin {"ok", "NotFound"}) =>
                /\ Returned_(t)
                /\ res[t] = DockerError("", log[t][i].res)
                /\ Count(log[t], "connect") = 0
                /\ i = Len(log[t])

C7_Witness ==
    \E t \in Threads :
        /\ op[t] = "attach_container"
        /\ Returned_(t)
        /\ Len(log[t]) = 2
        /\ log[t][2].op = "disconnect"
        /\ log[t][2].res = "RequestException"
        /\ res[t] = DockerError("", "RequestException")

OtherMembers(M, n) == {m \in M : m.Name # n}

\* stale_cleanup(name) issues exactly one disconnect, with force set, for
\* exactly that name; on NotFound it returns without raising.
C8_CleanupState ==
    \A t \in Threads :
        /\ (op[t] = "stale_cleanup" /\ Returned_(t)) =>
              /\ Len(log[t]) = 1
              /\ IsCleanup(log[t][1], args[t].container)
              /\ log[t][1].res = "NotFound" => res[t] = NoRes
        /\ \A i \in CallsOf(log[t], "disconnect") :
              op[t] \in {"stale_cleanup", "attach_container"} =>
                  IsCleanup(log[t][i], args[t].container)

\* the disconnect never changes the membership of another name, and changes
\* nothing at all when the provider reports NotFound.
C8_CleanupStep ==
    \A t \in Threads :
        (pc[t] = "cleanup" /\ pc'[t] # "cleanup") =>
            /\ Len(log'[t]) = Len(log[t]) + 1
            /\ IsCleanup(Last(log'[t]), args[t].container)
            /\ OtherMembers(netMembers', args[t].container)
                  = OtherMembers(netMembers, args[t].container)
            /\ bridgeMembers' = bridgeMembers
            /\ Last(log'[t]).res = "NotFound" => netMembers' = netMembers

\* C8: stale_cleanup always issues the forced disconnect of exactly its name,
\* returns without raising on NotFound, and leaves the other members alone
\* (C8_CleanupState in every state, C8_CleanupStep at every step).
C8_ForcedDisconnectNotFoundOk == []C8_CleanupState /\ [][C8_CleanupStep]_vars

C8_Witness ==
    \E t \in Threads :
        /\ op[t] = "stale_cleanup"
        /\ Returned_(t)
        /\ log[t][1].res = "NotFound"
        /\ res[t] = NoRes
        /\ netMembers # {}

\* C9: a failed reload never fails attach_container: the stale check and the
\* connect still run, and the call returns what the cleanup or the connect
\* makes of it.
C9_ReloadFailureSwallowed ==
    \A t \in Threads :
        (op[t] = "attach_container" /\ Len(log[t]) >= 1 /\ log[t][1].res # "ok") =>
            /\ IsReload(log[t][1])
            /\ Returned_(t) =>
                  /\ Len(log[t]) >= 2
                  /\ Last(log[t]).op \in {"disconnect", "connect"}
                  /\ Last(log[t]).op = "connect" =>
                        /\ IsConnect(Last(log[t]), args[t])
                        /\ res[t] = AttachOutcome(Last(log[t]).res)
                  /\ Last(log[t]).op = "disconnect" =>
                        /\ Last(log[t]).res \notin {"ok", "NotFound"}
                        /\ res[t] = CleanupOutcome(Last(log[t]).res)

C9_Witness ==
    \E t \in Threads :
        /\ op[t] = "attach_container"
        /\ Returned_(t)
        /\ log[t][1].res = "RequestException"
        /\ Last(log[t]).op = "connect"
        /\ res[t] = NoRes
        /\ \E m \in netMembers : m.Name = args[t].container /\ m.Live

\* when the lookup of the default network reports NotFound,
\* detach_default_bridge returns without raising and issues no disconnect.
C10_DetachState ==
    \A t \in Threads :
        (op[t] = "detach_default_bridge" /\ Len(log[t]) >= 1
            /\ log[t][1].res = "NotFound") =>
            /\ log[t][1].op = "get"
            /\ log[t][1].target = DOCKER_NETWORK_DRIVER
            /\ Returned_(t)
            /\ res[t] = NoRes
            /\ Len(log[t]) = 1

\* the lookup that reports NotFound changes no membership and ends the call.
C10_DetachStep ==
    \A t \in Threads :
        (pc[t] = "get_default" /\ Len(log'[t]) = 1 /\ log'[t][1].res = "NotFound") =>
            /\ netMembers' = netMembers
            /\ bridgeMembers' = bridgeMembers
            /\ pc'[t] = "idle"

\* C10: detach_default_bridge returns success on NotFound from the lookup of
\* the default network, with no disconnect call and no membership change
\* (C10_DetachState in every state, C10_DetachStep at every step).
C10_DetachNoDefaultNetwork == []C10_DetachState /\ [][C10_DetachStep]_vars

C10_Witness ==
    \E t \in Threads :
        /\ op[t] = "detach_default_bridge"
        /\ Returned_(t)
        /\ ~bridgeExists
        /\ log[t] = <<Call("get", DOCKER_NETWORK_DRIVER, FALSE, None, None, "NotFound")>>
        /\ res[t] = NoRes

----------------------------------------------------------------------------
(* Further properties of detach_default_bridge and _get_network *)

\* C11: in detach_default_bridge every provider error other than NotFound,
\* API-level or transport-level, raised by the lookup of the default network
\* or by the disconnect, makes the call raise a DockerError that carries it;
\* the call never returns success after such an error.
C11_DetachFailureWrapped ==
    \A t \in Threads :
        (op[t] = "detach_default_bridge" /\ Returned_(t)) =>
            \A i \in DOMAIN log[t] :
                log[t][i].res \in {"APIError", "RequestException"} =>
                    /\ res[t].exc = "DockerError"
                    /\ res[t].cause = log[t][i].res

\* where _get_network stands once get() has failed with something else than
\* NotFound: it has raised that error and issued nothing else
C12_GetFailedState ==
    (initLog # <<>> /\ initLog[1].res \notin {"ok", "NotFound"}) =>
        /\ initLog[1].op = "get"
        /\ pcInit = "failed"
        /\ initErr = initLog[1].res
        /\ Len(initLog) = 1
        /\ network.Id = 0

\* the failing get() changes nothing in the provider, and nothing is issued
\* on behalf of the manager afterwards
C12_GetFailedStep ==
    /\ (pcInit = "get" /\ pcInit' = "failed") =>
          UNCHANGED <<netExists, netId, netAttrs, netMembers>>
    /\ pcInit = "failed" =>
          UNCHANGED <<pcInit, initLog, initErr, network, netExists, netId, netAttrs, pc, log>>

\* C12: when get(DOCKER_NETWORK) fails with an error other than NotFound,
\* _get_network fails with that error, issues no remove and no create, and
\* leaves the networks of the provider unchanged
\* (C12_GetFailedState in every state, C12_GetFailedStep at every step).
C12_GetFailurePropagates == []C12_GetFailedState /\ [][C12_GetFailedStep]_vars

C12_Witness ==
    /\ pcInit = "failed"
    /\ initLog = <<InitCall("get", DOCKER_NETWORK, "RequestException", None)>>
    /\ initErr = "RequestException"
    /\ netExists

----------------------------------------------------------------------------
(* The reserved addresses *)

\* distance of an address from the base of the IPv4 subnet
Offset(ip) ==
    (ip.hi - DOCKER_IPV4_NETWORK_MASK.hi) * 65536 + (ip.lo - DOCKER_IPV4_NETWORK_MASK.lo)

\* the six properties return base+1 .. base+6, pairwise distinct, in every
\* state; what a caller read is exactly that; the gateway of every create()
\* is the gateway property
C13_AddressState ==
    /\ Offset(gateway) = 1
    /\ Offset(supervisor) = 2
    /\ Offset(dns) = 3
    /\ Offset(audio) = 4
    /\ Offset(cli) = 5
    /\ Offset(observer) = 6
    /\ Cardinality({Str(gateway), Str(supervisor), Str(dns),
                    Str(audio), Str(cli), Str(observer)}) = 6
    /\ seen # None =>
          /\ seen = Addresses
          /\ Offset(seen.gateway) = 1 /\ Offset(seen.supervisor) = 2
          /\ Offset(seen.dns) = 3 /\ Offset(seen.audio) = 4
          /\ Offset(seen.cli) = 5 /\ Offset(seen.observer) = 6
    /\ \A i \in CallsOf(initLog, "create") :
          initLog[i].arg.ipam[2].gateway = Str(gateway)

\* reading the properties issues no provider call and changes nothing else
C13_AddressStep ==
    (seen = None /\ seen' # None) =>
        UNCHANGED <<provVars, initVars, network, log, pc, res>>

\* C13: in every reachable state the accessors return base+1 .. base+6 of the
\* fixed IPv4 subnet (gateway, supervisor, dns, audio, cli, observer), pairwise
\* distinct, reading them issues no provider call, and the gateway of the
\* create parameters equals the gateway accessor
\* (C13_AddressState in every state, C13_AddressStep at every step).
C13_ReservedAddresses == []C13_AddressState /\ [][C13_AddressStep]_vars

C13_Witness ==
    /\ seen = Addresses
    /\ Count(initLog, "remove") = 1
    /\ Count(initLog, "create") = 1
    /\ \E t \in Threads : Returned_(t) /\ res[t].exc = "DockerError"

----------------------------------------------------------------------------
(* Repeated attach_container *)

HasEntry(M, n, ip) == \E m \in M : m.Name = n /\ m.IPv4 = ip

\* the container of the call was connected, live and with the requested
\* address, when the call began
AlreadyAttached(t) ==
    /\ op[t] = "attach_container"
    /\ [Name |-> args[t].container, Live |-> TRUE, IPv4 |-> args[t].ipv4_address]
          \in before[t]

\* C14: attach_container on a container that is already correctly attached
\* performs a reload and leaves the container connected with the same address:
\* repeating cleanup+connect never leaves it in a worse membership state.
C14_ReattachKeepsMembership ==
    \A t \in Threads :
        (AlreadyAttached(t) /\ Returned_(t)) =>
            /\ IsReload(log[t][1])
            /\ HasEntry(netMembers, args[t].container, args[t].ipv4_address)

\* the connect that followed a successful forced disconnect failed
ReconnectFailed(L) ==
    /\ Len(L) = 3
    /\ L[2].op = "disconnect" /\ L[2].res = "ok"
    /\ L[3].op = "connect" /\ L[3].res # "ok"

C14_ReattachState ==
    \A t \in Threads :
        (AlreadyAttached(t) /\ Returned_(t)) =>
        LET L == log[t]
            n == args[t].container IN
        /\ IsReload(L[1])
        /\ L[1].res = "ok" => Len(L) >= 2 /\ IsCleanup(L[2], n)
        /\ IF ReconnectFailed(L)
           THEN /\ ~\E m \in netMembers : m.Name = n
                /\ res[t] # NoRes
           ELSE HasEntry(netMembers, n, args[t].ipv4_address)
        /\ (\A i \in DOMAIN L : L[i].res = "ok") =>
              /\ Len(L) = 3
              /\ IsConnect(L[3], args[t])
              /\ res[t] = NoRes

\* the cleanup and the connect of a call touch the entries of no other name
C14_ReattachStep ==
    \A t \in Threads :
        (pc[t] \in {"cleanup", "connect"} /\ pc'[t] # pc[t]) =>
            OtherMembers(netMembers', args[t].container)
                = OtherMembers(netMembers, args[t].container)

\* C14 (amended): attach_container on an already correctly attached container
\* reloads, force-disconnects the container it saw in the snapshot and
\* connects it again; no other member is touched; the container ends connected
\* with the same address unless the connect after a successful forced
\* disconnect fails, and then it is left disconnected and the call raises.
C14_ReattachUnlessReconnectFails == []C14_ReattachState /\ [][C14_ReattachStep]_vars

C14_Witness ==
    \E t \in Threads :
        /\ AlreadyAttached(t)
        /\ Returned_(t)
        /\ Len(log[t]) = 3
        /\ \A i \in DOMAIN log[t] : log[t][i].res = "ok"
        /\ res[t] = NoRes
        /\ HasEntry(netMembers, args[t].container, args[t].ipv4_address)

----------------------------------------------------------------------------
(* First attach to a freshly created network *)

\* the network was absent and _get_network created it with enable_ipv6 set
CreatedDualStack ==
    /\ Absent
    /\ Resolved
    /\ initLog[2].op = "create"
    /\ initLog[2].arg.enable_ipv6 = TRUE
    /\ initLog[2].ret.attrs = [EnableIPv6 |-> TRUE]

\* the cached membership holds no entry under the name of the container
NotInSnapshot(t) ==
    \A val \in AttrsGet(network.attrs, "Containers", {}) : val.Name # args[t].container

\* C15: on a network that _get_network created with enable_ipv6=true,
\* attach_container for a container whose name has no entry in the membership
\* issues no disconnect and exactly one connect, carrying that container, those
\* aliases and that address (none when none was given); the call returns what
\* the connect returns, and on success the container is a member with that
\* address.
C15_FirstAttach ==
    \A t \in Threads :
        (CreatedDualStack /\ op[t] = "attach_container" /\ NotInSnapshot(t)
            /\ pc[t] \notin {"reload", "check"}) =>
        LET L == log[t] IN
        /\ pc[t] = "connect"
        \/ /\ Returned_(t)
           /\ Len(L) = 2
           /\ IsReload(L[1])
           /\ IsConnect(L[2], args[t])
           /\ Count(L, "connect") = 1
           /\ Count(L, "disconnect") = 0
           /\ res[t] = AttachOutcome(L[2].res)
           /\ L[2].res = "ok" =>
                 /\ res[t] = NoRes
                 /\ [Name |-> args[t].container, Live |-> TRUE,
                     IPv4 |-> args[t].ipv4_address] \in netMembers
                    \/ [Name |-> args[t].container, Live |-> FALSE,
                        IPv4 |-> args[t].ipv4_address] \in netMembers

C15_Witness ==
    \E t \in Threads :
        /\ CreatedDualStack
        /\ calls = 1
        /\ op[t] = "attach_container"
        /\ Returned_(t)
        /\ args[t] = [container |-> "core", alias |-> <<"supervisor">>,
                      ipv4_address |-> <<172, 30, 32, 2>>]
        /\ log[t] = <<Call("reload", network.Id, FALSE, None, None, "ok"),
                      Call("connect", "core", FALSE, <<"supervisor">>, <<172, 30, 32, 2>>, "ok")>>
        /\ res[t] = NoRes
        /\ netMembers = {[Name |-> "core", Live |-> TRUE, IPv4 |-> <<172, 30, 32, 2>>]}

----------------------------------------------------------------------------
(* Membership after a migration *)

\* _get_network found a single-stack network while dual-stack is wanted, and
\* has returned
Migrated == Resolved /\ Existing /\ ~ExistingFlag /\ desired

MemberNames(M) == {m.Name : m \in M}

\* after the migration the handle is the created network; until a method is
\* called it has no member, in the provider and through the containers property
C16_MigratedState ==
    Migrated =>
        /\ Len(initLog) = 3
        /\ initLog[2].op = "remove" /\ initLog[3].op = "create"
        /\ network.Id = initLog[3].ret.Id
        /\ network.Id # initLog[1].ret.Id
        /\ HandleValid
        /\ calls = 0 => netMembers = {} /\ containers = {}

\* a name enters the membership only by the connect of an attach_container
\* call for that name
C16_MemberStep ==
    \A n \in MemberNames(netMembers') \ MemberNames(netMembers) :
        \E t \in Threads :
            /\ op[t] = "attach_container"
            /\ pc[t] = "connect"
            /\ pc'[t] = "idle"
            /\ args[t].container = n
            /\ Last(log'[t]).op = "connect"
            /\ Last(log'[t]).res = "ok"

\* C16: after a migrating _get_network (existing network single-stack with
\* members, dual-stack wanted) the network of the manager has no member: none
\* is carried over from the removed network, and a container becomes a member
\* again only through a later attach_container call for it
\* (C16_MigratedState in every state, C16_MemberStep at every step).
C16_FreshNetworkAfterMigration == []C16_MigratedState /\ [][C16_MemberStep]_vars

C16_Witness ==
    /\ Migrated
    /\ calls = 1
    /\ \E t \in Threads :
        /\ op[t] = "attach_container"
        /\ Returned_(t)
        /\ res[t] = NoRes
        /\ MemberNames(netMembers) = {args[t].container}
    /\ containers = {}

----------------------------------------------------------------------------
(* Stale entries and a failed reload *)

\* the entries under the name of the container when the call began
OwnBefore(t) == {m \in before[t] : m.Name = args[t].container}

\* when the call began, the provider held an entry under the name of the
\* container whose container was gone
StaleBefore(t) ==
    /\ op[t] = "attach_container"
    /\ \E m \in OwnBefore(t) : ~m.Live

\* no member under another name holds the address the call asks for
AddressFree(t) ==
    \/ args[t].ipv4_address = None
    \/ \A m \in OtherMembers(netMembers, args[t].container) :
          m.IPv4 # args[t].ipv4_address

\* the forced disconnect of n comes before the connect in L
CleanupThenConnect(L, n, a) ==
    \E i, j \in DOMAIN L : i < j /\ IsCleanup(L[i], n) /\ IsConnect(L[j], a)

\* C17: reload is not required for correctness: attach_container(X) for a name
\* with a stale entry in the provider's membership issues the forced disconnect
\* of X before the connect and ends with X connected, when reload succeeds and
\* when reload fails and the check reads the cached snapshot (the requested address
\* being free and no provider call other than the reload failing by itself).
C17_ReloadNotRequired ==
    \A t \in Threads :
        (StaleBefore(t) /\ Returned_(t) /\ AddressFree(t)
            /\ (faults = 0 \/ (faults = 1 /\ log[t][1].res # "ok"))) =>
            /\ CleanupThenConnect(log[t], args[t].container, args[t])
            /\ HasEntry(netMembers, args[t].container, args[t].ipv4_address)

\* C17 (amended): attach_container(X) for a name with a stale entry in the
\* provider's membership force-disconnects X before the connect whenever the
\* snapshot it checks holds an entry named X: always after a successful
\* reload, and after a failed reload only if the cached snapshot already held
\* one; then, when disconnect and connect succeed, X ends connected. After a
\* failed reload over a cached snapshot without X there is no disconnect, the
\* connect fails, the call raises and the stale entry stays.
C17_CleanupNeedsSnapshotEntry ==
    \A t \in Threads :
        (StaleBefore(t) /\ Returned_(t)) =>
        LET L == log[t]
            n == args[t].container IN
        /\ IsReload(L[1])
        /\ Len(L) >= 2
        /\ L[1].res = "ok" => IsCleanup(L[2], n)
        /\ (L[1].res # "ok" /\ n \in containers) => IsCleanup(L[2], n)
        /\ (IsCleanup(L[2], n) /\ \A i \in 2..Len(L) : L[i].res = "ok") =>
              /\ CleanupThenConnect(L, n, args[t])
              /\ res[t] = NoRes
              /\ HasEntry(netMembers, n, args[t].ipv4_address)
              /\ (\A m \in OwnBefore(t) : m.IPv4 # args[t].ipv4_address) =>
                    OwnBefore(t) \cap netMembers = {}
        /\ (L[1].res # "ok" /\ n \notin containers) =>
              /\ Len(L) = 2
              /\ IsConnect(L[2], args[t])
              /\ L[2].res # "ok"
              /\ res[t] # NoRes
              /\ OwnBefore(t) \subseteq netMembers

C17_Witness ==
    \E t \in Threads :
        /\ StaleBefore(t)
        /\ Returned_(t)
        /\ Len(log[t]) = 3
        /\ log[t][1].res \in FaultKinds
        /\ IsCleanup(log[t][2], args[t].container) /\ log[t][2].res = "ok"
        /\ IsConnect(log[t][3], args[t]) /\ log[t][3].res = "ok"
        /\ res[t] = NoRes
        /\ [Name |-> args[t].container, Live |-> TRUE,
            IPv4 |-> args[t].ipv4_address] \in netMembers
        /\ OwnBefore(t) \cap netMembers = {}

----------------------------------------------------------------------------
(* The migration of _get_network step by step *)

C20_MigrationState ==
    (Len(initLog) >= 2 /\ initLog[2].op = "remove") =>
    LET L == initLog IN
    /\ Existing /\ ~ExistingFlag
    /\ Len(L) <= 3
    /\ Count(L, "create") <= 1
    /\ (L[2].res # "ok" /\ ~IsInstance(L[2].res, "NotFound")) =>
          /\ Len(L) = 2
          /\ Count(L, "create") = 0
          /\ pcInit = "failed"
          /\ initErr = L[2].res
    /\ IsInstance(L[2].res, "NotFound") =>
          /\ ~InitOver => pcInit = "create" /\ Len(L) = 2
          /\ InitOver =>
                /\ Len(L) = 3
                /\ L[3].op = "create"
                /\ L[3].arg = DOCKER_NETWORK_PARAMS
    /\ (L[2].res = "ok" /\ Len(L) = 3 /\ L[3].res # "ok") =>
          /\ L[3].op = "create"
          /\ pcInit = "failed"
          /\ initErr = L[3].res
          /\ ~netExists

\* a remove() or create() that fails leaves the provider as it was; a remove()
\* that succeeds takes the old network away before anything is created
C20_MigrationStep ==
    (Len(initLog') = Len(initLog) + 1 /\ Last(initLog').op \in {"remove", "create"}) =>
        /\ Last(initLog').res # "ok" => UNCHANGED provVars
        /\ (Last(initLog').op = "remove" /\ Last(initLog').res = "ok") =>
              netExists /\ ~netExists' /\ pcInit' = "create"

\* C20: the migration in _get_network is not atomic and has no rollback: when
\* remove() fails with an error other than NotFound, create() is never called,
\* the provider is left as it was and initialization fails with that error;
\* when remove() raises NotFound, _get_network goes on to exactly one create()
\* as for an absent network; when remove() succeeds and create() fails,
\* initialization fails and the provider is left without the network
\* (C20_MigrationState in every state, C20_MigrationStep at every step).
C20_MigrationNotAtomic == []C20_MigrationState /\ [][C20_MigrationStep]_vars

C20_Witness ==
    /\ Len(initLog) = 3
    /\ initLog[1].op = "get" /\ initLog[1].res = "ok"
    /\ initLog[2].op = "remove" /\ initLog[2].res = "ok"
    /\ initLog[3].op = "create" /\ initLog[3].res \in FaultKinds
    /\ pcInit = "failed"
    /\ ~netExists
    /\ netMembers = {}

----------------------------------------------------------------------------
(* attach_container from two tasks *)

Attaching(t) == op[t] = "attach_container"

SameName(t, u) ==
    t # u /\ Attaching(t) /\ Attaching(u) /\ args[t].container = args[u].container

\* the address the call asks for was held under no other name when the call
\* began and is asked for by no call for another name
AddressClear(t) ==
    \/ args[t].ipv4_address = None
    \/ /\ \A m \in before[t] : m.Name = args[t].container
       /\ \A u \in AllThreads \ {t} :
             Attaching(u) =>
                \/ args[u].container = args[t].container
                \/ args[u].ipv4_address # args[t].ipv4_address

\* the provider did not fail, and the call has returned with an error or
\* without the membership it asked for
FailedUnprovoked(t) ==
    /\ Attaching(t)
    /\ Returned_(t)
    /\ faults = 0
    /\ AddressClear(t)
    /\ \/ res[t] # NoRes
       \/ ~HasEntry(netMembers, args[t].container, args[t].ipv4_address)

\* the connect of the call met the name already connected
DuplicateName(t) ==
    /\ Last(log[t]).op = "connect"
    /\ Last(log[t]).res = "APIError"
    /\ res[t] = DockerError("Can't link container to hassio-net", "APIError")
    /\ args[t].container \in MemberNames(netMembers)

\* the call connected its container and another call's forced disconnect took
\* the membership away
Undone(t, u) ==
    /\ res[t] = NoRes
    /\ Last(log[t]).op = "connect"
    /\ Last(log[t]).res = "ok"
    /\ \E i \in DOMAIN log[u] :
          IsCleanup(log[u][i], args[t].container) /\ log[u][i].res = "ok"

\* C18: two attach_container calls for the same container name that run at
\* once are not coordinated: without any failure of the provider a call can
\* fail on the duplicate name, or lose the membership it has just established
\* to the forced disconnect of the other call. These are the only ways: a call
\* that fails or ends without its membership while the provider did not fail
\* ran together with a call for the same name.
C18_SameNameRace ==
    \A t \in AllThreads :
        FailedUnprovoked(t) =>
            \E u \in AllThreads :
                /\ SameName(t, u)
                /\ DuplicateName(t) \/ Undone(t, u)

C18_Witness ==
    \E t, u \in AllThreads :
        /\ SameName(t, u)
        /\ FailedUnprovoked(t)
        /\ DuplicateName(t)
        /\ Returned_(u)
        /\ res[u] = NoRes
        /\ Count(log[t], "disconnect") = 1
        /\ Count(log[u], "disconnect") = 1

C19_DifferentNamesState ==
    \A t \in AllThreads :
        Attaching(t) =>
            /\ \A i \in DOMAIN log[t] :
                  log[t][i].op = "disconnect" => IsCleanup(log[t][i], args[t].container)
            /\ Count(log[t], "disconnect") <= 1
            /\ (/\ Returned_(t)
                /\ faults = 0
                /\ AddressClear(t)
                /\ \A u \in AllThreads : ~SameName(t, u)) =>
                  /\ res[t] = NoRes
                  /\ HasEntry(netMembers, args[t].container, args[t].ipv4_address)

\* a step of a call leaves the entries of every other name alone, and the call
\* goes to the forced disconnect exactly when the snapshot holds its name
C19_DifferentNamesStep ==
    \A t \in AllThreads :
        pc'[t] # pc[t] =>
            /\ OtherMembers(netMembers', args'[t].container)
                  = OtherMembers(netMembers, args'[t].container)
            /\ pc'[t] = "cleanup" =>
                  pc[t] = "check" /\ args[t].container \in containers
            /\ (pc[t] = "check" /\ pc'[t] = "connect") =>
                  args[t].container \notin containers

\* C19: attach_container calls for different container names do not interfere:
\* however their steps interleave over the shared handle and snapshot, the only
\* name a call for X force-disconnects is X, and only when the snapshot it
\* reads holds an entry named X; it never removes the membership of another
\* name; and when the provider does not fail (and the requested addresses do
\* not collide) every call ends with its container connected
\* (C19_DifferentNamesState in every state, C19_DifferentNamesStep at every step).
C19_DifferentNamesIndependent ==
    []C19_DifferentNamesState /\ [][C19_DifferentNamesStep]_vars

C19_Witness ==
    /\ Attaching(1) /\ Attaching(2)
    /\ args[1].container # args[2].container
    /\ Returned_(1) /\ Returned_(2)
    /\ faults = 0
    /\ \A t \in AllThreads :
        /\ AddressClear(t)
        /\ Len(log[t]) = 3
        /\ IsCleanup(log[t][2], args[t].container) /\ log[t][2].res = "ok"
        /\ res[t] = NoRes
        /\ [Name |-> args[t].container, Live |-> TRUE,
            IPv4 |-> args[t].ipv4_address] \in netMembers

====
